---- MODULE Spec2Model ----
(***************************************************************************)
(* Strategy evaluation and performance metrics of the backtesting app      *)
(* (src/backtesting_core.py; src/backtest_app.py holds a textual copy).    *)
(*                                                                         *)
(* A DataFrame is a record [index, cols]: index is the sequence of row     *)
(* labels (dates, as day ordinals counted from 2022-01-01 = 1) and cols    *)
(* maps a column name to its sequence of cells.  Python positions are      *)
(* 0-based; row p of the code is element p + 1 here.                       *)
(*                                                                         *)
(* float64 cells are modelled as exact rationals extended with NaN and     *)
(* +/-inf, with the IEEE rules for x/0, arithmetic on inf and comparisons  *)
(* with NaN.  Rounding error is not modelled.                              *)
(***************************************************************************)
EXTENDS Integers, Sequences, FiniteSets, TLC

VARIABLES
    series,    \* the caller's DataFrame (the argument `data` of every call)
    work,      \* the DataFrame the local name `data` is bound to when the last call returned
    op,        \* the last call: function name, window parameters a and b, num_std k
    result,    \* (returns, trades, trade_log) of the last strategy call
    metrics,   \* (volatility, sharpe_ratio, max_drawdown) of the last metrics call
    raised,    \* TRUE iff the last call ended in an exception
    pc,        \* the position of a run of the app; "direct" when the functions are called directly
    fetched,   \* the DataFrame as fetch_data returned it
    calls      \* the functions of backtesting_core the run of the app has invoked, in order

vars == <<series, work, op, result, metrics, raised, pc, fetched, calls>>

\* the state of a run of the app
run == <<pc, fetched, calls>>

----------------------------------------------------------------------------
(* Bounds of the model *)

MaxLen == 5        \* rows of a price series: 0..MaxLen
MaxPrice == 3      \* closes: 1..MaxPrice
MaxWindow == 3     \* short_window, long_window, rsi_period, window: 1..MaxWindow
FirstDay == 30     \* ordinal of the first row's date (2022-01-30); rows are consecutive days

----------------------------------------------------------------------------
(* float64 cells *)

Abs(x) == IF x < 0 THEN -x ELSE x

Sgn(x) == IF x < 0 THEN -1 ELSE IF x > 0 THEN 1 ELSE 0

RECURSIVE Gcd(_, _)
Gcd(a, b) == IF b = 0 THEN a ELSE Gcd(b, a % b)

\* the rational n/d (d # 0), in lowest terms with a positive denominator
Q(n, d) ==
    LET g == Gcd(Abs(n), Abs(d))
        s == IF d < 0 THEN -1 ELSE 1
    IN  [k |-> "num", n |-> (s * n) \div g, d |-> (s * d) \div g]

NaN == [k |-> "nan", n |-> 0, d |-> 1]

Inf(s) == [k |-> "inf", n |-> s, d |-> 1]

Int2F(i) == Q(i, 1)

IsNum(x) == x.k = "num"

IsNaN(x) == x.k = "nan"

Neg(x) == IF IsNum(x) THEN Q(-x.n, x.d) ELSE IF IsNaN(x) THEN NaN ELSE Inf(-x.n)

Add(x, y) ==
    IF IsNaN(x) \/ IsNaN(y) THEN NaN
    ELSE IF IsNum(x) /\ IsNum(y) THEN Q(x.n * y.d + y.n * x.d, x.d * y.d)
    ELSE IF IsNum(x) THEN y
    ELSE IF IsNum(y) THEN x
    ELSE IF x.n = y.n THEN x ELSE NaN

Sub(x, y) == Add(x, Neg(y))

Mul(x, y) ==
    IF IsNaN(x) \/ IsNaN(y) THEN NaN
    ELSE IF IsNum(x) /\ IsNum(y) THEN Q(x.n * y.n, x.d * y.d)
    ELSE IF Sgn(x.n) * Sgn(y.n) = 0 THEN NaN
    ELSE Inf(Sgn(x.n) * Sgn(y.n))

\* IEEE division: x/0 is +/-inf for x # 0 and NaN for x = 0
Div(x, y) ==
    IF IsNaN(x) \/ IsNaN(y) THEN NaN
    ELSE IF IsNum(x) /\ IsNum(y) THEN
        IF y.n # 0 THEN Q(x.n * y.d, x.d * y.n)
        ELSE IF x.n = 0 THEN NaN ELSE Inf(Sgn(x.n))
    ELSE IF IsNum(x) THEN Q(0, 1)
    ELSE IF IsNum(y) THEN Inf(x.n * (IF y.n < 0 THEN -1 ELSE 1))
    ELSE NaN

\* x < y; FALSE whenever an operand is NaN
Lt(x, y) ==
    /\ ~IsNaN(x) /\ ~IsNaN(y)
    /\ IF IsNum(x) /\ IsNum(y) THEN x.n * y.d < y.n * x.d
       ELSE IF IsNum(x) THEN y.n > 0
       ELSE IF IsNum(y) THEN x.n < 0
       ELSE x.n < y.n

Gt(x, y) == Lt(y, x)

Le(x, y) == ~IsNaN(x) /\ ~IsNaN(y) /\ ~Lt(y, x)

Ge(x, y) == Le(y, x)

----------------------------------------------------------------------------
(* DataFrames *)

Len0(df) == Len(df.index)

Columns(df) == DOMAIN df.cols

EmptyFrame == [index |-> <<>>, cols |-> <<>>]

\* data[name] = values: adds or replaces a column
SetCol(df, name, values) ==
    [df EXCEPT !.cols = [c \in (DOMAIN df.cols) \cup {name} |->
                            IF c = name THEN values ELSE df.cols[c]]]

\* the frame restricted to the rows (positions) in keep, order preserved
RECURSIVE SelectSeq2(_, _, _)
SelectSeq2(s, keep, i) ==
    IF i > Len(s) THEN <<>>
    ELSE (IF i \in keep THEN <<s[i]>> ELSE <<>>) \o SelectSeq2(s, keep, i + 1)

Rows(df, keep) ==
    [index |-> SelectSeq2(df.index, keep, 1),
     cols |-> [c \in DOMAIN df.cols |-> SelectSeq2(df.cols[c], keep, 1)]]

\* data.loc[label, col]: labels are unique, so the lookup yields a scalar
Loc(df, label, col) ==
    LET i == CHOOSE j \in 1..Len0(df) : df.index[j] = label
    IN  df.cols[col][i]

----------------------------------------------------------------------------
(* Dates: idx.strftime('%Y-%m-%d') *)

DaysInMonth(m) == IF m = 2 THEN 28 ELSE IF m \in {4, 6, 9, 11} THEN 30 ELSE 31

RECURSIVE YmdFrom(_, _, _)
YmdFrom(y, m, d) ==
    IF d <= DaysInMonth(m) THEN <<y, m, d>>
    ELSE IF m = 12 THEN YmdFrom(y + 1, 1, d - DaysInMonth(m))
    ELSE YmdFrom(y, m + 1, d - DaysInMonth(m))

\* the string 'YYYY-MM-DD' as its three zero-padded fields
Strftime(ordinal) == YmdFrom(2022, 1, ordinal)

\* Python's < on two such strings: lexicographic, year first
DateStrLt(a, b) ==
    \/ a[1] < b[1]
    \/ a[1] = b[1] /\ a[2] < b[2]
    \/ a[1] = b[1] /\ a[2] = b[2] /\ a[3] < b[3]

----------------------------------------------------------------------------
(* Results *)

NoResult == [returns |-> Int2F(0), trades |-> <<>>, trade_log |-> <<>>]

NoMetrics == [volatility |-> NaN, sharpe_ratio |-> NaN, max_drawdown |-> NaN]

Event(action, label, price) ==
    [action |-> action, date |-> Strftime(label), price |-> price]

\* a bug: the change is taken relative to the sell price
PctChange_bysell(buy_price, sell_price) ==
    Mul(Div(Sub(sell_price, buy_price), sell_price), Int2F(100))

\* (sell_price - buy_price) / buy_price * 100
PctChange(buy_price, sell_price) ==
    Mul(Div(Sub(sell_price, buy_price), buy_price), Int2F(100))

----------------------------------------------------------------------------
(* Name binding: which object the local name `data` refers to.  obj is that *)
(* object, caller is the object the caller passed, shared says whether they *)
(* are the same object, so that a column assignment through the local name  *)
(* is seen by the caller.                                                   *)

\* the parameter `data` on entry: bound to the caller's object
Param(df) == [obj |-> df, caller |-> df, shared |-> TRUE]

\* data = <a new object>: the local name no longer refers to the caller's object
Rebind(b, df) == [obj |-> df, caller |-> b.caller, shared |-> FALSE]

\* data[name] = values
Assign(b, name, values) ==
    LET f == SetCol(b.obj, name, values)
    IN  [obj |-> f, caller |-> IF b.shared THEN f ELSE b.caller, shared |-> b.shared]

\* a bug: the function works on the caller's object
DataCopy_alias(b) == b

\* data = data.copy()
DataCopy(b) == Rebind(b, b.obj)

----------------------------------------------------------------------------
(* Column operations of pandas *)

RECURSIVE SumCells(_, _, _)
SumCells(col, lo, hi) ==
    IF lo > hi THEN Int2F(0) ELSE Add(col[lo], SumCells(col, lo + 1, hi))

\* col.rolling(window=w).mean(): NaN until w observations are in the window
RollingMean(col, w) ==
    [i \in 1..Len(col) |->
        IF i < w THEN NaN ELSE Div(SumCells(col, i - w + 1, i), Int2F(w))]

\* col.diff(): NaN in the first row
Diff(col) ==
    [i \in 1..Len(col) |-> IF i = 1 THEN NaN ELSE Sub(col[i], col[i - 1])]

\* data[data['positions'] == v].index
LabelsWhere(df, col, v) ==
    LET keep == {i \in 1..Len0(df) : df.cols[col][i] = Int2F(v)}
    IN  SelectSeq2(df.index, keep, 1)

----------------------------------------------------------------------------
(* Trade log and returns: the code after the signals, textually the same in *)
(* moving_average_crossover, rsi_strategy and bollinger_bands_strategy      *)

\* the two for-loops: one entry per label, BUY entries first
LogEntries(df, buy_signals, sell_signals) ==
    [i \in 1..Len(buy_signals) |->
        Event("BUY", buy_signals[i], Loc(df, buy_signals[i], "Close"))]
    \o
    [i \in 1..Len(sell_signals) |->
        Event("SELL", sell_signals[i], Loc(df, sell_signals[i], "Close"))]

\* e inserted behind every entry whose date is not greater than e's
RECURSIVE InsertByDate(_, _)
InsertByDate(sorted, e) ==
    IF sorted = <<>> THEN <<e>>
    ELSE IF DateStrLt(e.date, sorted[Len(sorted)].date)
         THEN Append(InsertByDate(SubSeq(sorted, 1, Len(sorted) - 1), e),
                     sorted[Len(sorted)])
         ELSE Append(sorted, e)

\* a bug: the log is returned as it was appended, BUY entries first
SortedByDate_unsorted(log) == log

\* sorted(trade_log, key=lambda x: x['date']): stable
RECURSIVE SortedByDate(_)
SortedByDate(log) ==
    IF log = <<>> THEN <<>>
    ELSE InsertByDate(SortedByDate(SubSeq(log, 1, Len(log) - 1)), log[Len(log)])

\* a bug: the return is computed to the first sell signal
SellPrice_first(df, sell_signals) == Loc(df, sell_signals[1], "Close")

\* data.loc[sell_signals[-1], 'Close']
SellPrice(df, sell_signals) == Loc(df, sell_signals[Len(sell_signals)], "Close")

\* a bug: a one-sided run still reports the prices it has
Outcome_partial(df, buy_signals, sell_signals, trade_log) ==
    IF Len(buy_signals) = 0 /\ Len(sell_signals) = 0
    THEN [returns |-> Int2F(0), trades |-> <<>>, trade_log |-> trade_log]
    ELSE IF Len(sell_signals) = 0
    THEN [returns |-> Int2F(0),
          trades |-> <<Loc(df, buy_signals[1], "Close")>>,
          trade_log |-> trade_log]
    ELSE IF Len(buy_signals) = 0
    THEN [returns |-> Int2F(0),
          trades |-> <<SellPrice(df, sell_signals)>>,
          trade_log |-> trade_log]
    ELSE
    LET buy_price == Loc(df, buy_signals[1], "Close")
        sell_price == SellPrice(df, sell_signals)
    IN  [returns |-> PctChange(buy_price, sell_price),
         trades |-> <<buy_price, sell_price>>,
         trade_log |-> trade_log]

\* from the emptiness test to the return statement
Outcome(df, buy_signals, sell_signals, trade_log) ==
    IF Len(buy_signals) = 0 \/ Len(sell_signals) = 0
    THEN [returns |-> Int2F(0), trades |-> <<>>, trade_log |-> trade_log]
    ELSE
    LET buy_price == Loc(df, buy_signals[1], "Close")
        sell_price == SellPrice(df, sell_signals)
    IN  [returns |-> PctChange(buy_price, sell_price),
         trades |-> <<buy_price, sell_price>>,
         trade_log |-> trade_log]

\* a call's effect: the caller's object, the local object, the returned tuple
Return(b, res) == [raised |-> FALSE, caller |-> b.caller, local |-> b.obj, res |-> res]

\* the code from `trade_log = []` to the return statement
Settle(b, buy_signals, sell_signals) ==
    Return(b, Outcome(b.obj, buy_signals, sell_signals,
                      SortedByDate(LogEntries(b.obj, buy_signals, sell_signals))))

\* data['positions'] = data['signal'].diff()
WithPositions(b) == Assign(b, "positions", Diff(b.obj.cols["signal"]))

----------------------------------------------------------------------------
(* buy_and_hold *)

buy_and_hold(df) ==
    IF Len0(df) = 0
    THEN \* .iloc[0] of an empty column: IndexError
         [raised |-> TRUE, caller |-> df, local |-> df, res |-> NoResult]
    ELSE Return(Param(df),
                [returns |-> PctChange(df.cols["Close"][1], df.cols["Close"][Len0(df)]),
                 trades |-> <<df.cols["Close"][1], df.cols["Close"][Len0(df)]>>,
                 trade_log |-> <<Event("BUY", df.index[1], df.cols["Close"][1]),
                                 Event("SELL", df.index[Len0(df)],
                                       df.cols["Close"][Len0(df)])>>])

----------------------------------------------------------------------------
(* moving_average_crossover *)

\* a bug: the signal is evaluated one row early, from position short_window - 1
CrossoverSignal_early(data, short_window) ==
    [i \in 1..Len0(data) |->
        IF i > short_window - 1 /\ Gt(data.cols["short_ma"][i], data.cols["long_ma"][i])
        THEN 1 ELSE 0]

\* data['signal'] = 0, then rows data.index[short_window:] get
\* (short_ma > long_ma).astype(int)
CrossoverSignal(data, short_window) ==
    [i \in 1..Len0(data) |->
        IF i > short_window /\ Gt(data.cols["short_ma"][i], data.cols["long_ma"][i])
        THEN 1 ELSE 0]

\* a bug: the sell side uses the -2 threshold of the other strategies
CrossoverSells_strict(data) == LabelsWhere(data, "positions", -2)

\* data[data['positions'] == -1].index
CrossoverSells(data) == LabelsWhere(data, "positions", -1)

\* data['short_ma'] and data['long_ma']
WithAverages(b, short_window, long_window) ==
    Assign(Assign(b, "short_ma", RollingMean(b.obj.cols["Close"], short_window)),
           "long_ma", RollingMean(b.obj.cols["Close"], long_window))

WithCrossoverSignal(b, short_window) ==
    Assign(b, "signal",
           [i \in 1..Len0(b.obj) |-> Int2F(CrossoverSignal(b.obj, short_window)[i])])

CrossoverTrades(b) == Settle(b, LabelsWhere(b.obj, "positions", 1), CrossoverSells(b.obj))

moving_average_crossover(df, short_window, long_window) ==
    CrossoverTrades(
        WithPositions(
            WithCrossoverSignal(
                WithAverages(DataCopy(Param(df)), short_window, long_window),
                short_window)))

----------------------------------------------------------------------------
(* rsi_strategy and bollinger_bands_strategy: events *)

\* a bug: a buy fires on a difference of 1, as in moving_average_crossover
StrictBuys_loose(data) == LabelsWhere(data, "positions", 1)

\* data[data['positions'] == 2].index.tolist()
StrictBuys(data) == LabelsWhere(data, "positions", 2)

\* data[data['positions'] == -2].index.tolist()
StrictSells(data) == LabelsWhere(data, "positions", -2)

----------------------------------------------------------------------------
(* rsi_strategy *)

\* delta.where(delta > 0, 0): a NaN delta fails the test and becomes 0
Gains(delta) == [i \in 1..Len(delta) |-> IF Gt(delta[i], Int2F(0)) THEN delta[i] ELSE Int2F(0)]

\* -delta.where(delta < 0, 0)
Losses(delta) ==
    [i \in 1..Len(delta) |-> Neg(IF Lt(delta[i], Int2F(0)) THEN delta[i] ELSE Int2F(0))]

\* a bug: the ratio is inverted, rs = loss / gain
RsiColumn_inverted(gain, loss) ==
    [i \in 1..Len(gain) |->
        Sub(Int2F(100), Div(Int2F(100), Add(Int2F(1), Div(loss[i], gain[i]))))]

\* 100 - (100 / (1 + rs)), rs = gain / loss
RsiColumn(gain, loss) ==
    [i \in 1..Len(gain) |->
        Sub(Int2F(100), Div(Int2F(100), Add(Int2F(1), Div(gain[i], loss[i]))))]

\* signal = 0; RSI < 30 gives 1; RSI > 70 gives -1
RsiSignal(rsi) ==
    [i \in 1..Len(rsi) |->
        IF Gt(rsi[i], Int2F(70)) THEN Int2F(-1)
        ELSE IF Lt(rsi[i], Int2F(30)) THEN Int2F(1)
        ELSE Int2F(0)]

\* data['RSI'], from delta = data['Close'].diff()
WithRsi(b, delta, rsi_period) ==
    Assign(b, "RSI", RsiColumn(RollingMean(Gains(delta), rsi_period),
                               RollingMean(Losses(delta), rsi_period)))

WithRsiSignal(b) == Assign(b, "signal", RsiSignal(b.obj.cols["RSI"]))

StrictTrades(b) == Settle(b, StrictBuys(b.obj), StrictSells(b.obj))

rsi_strategy(df, rsi_period) ==
    StrictTrades(
        WithPositions(
            WithRsiSignal(
                WithRsi(DataCopy(Param(df)), Diff(df.cols["Close"]), rsi_period))))

----------------------------------------------------------------------------
(* Cells that hold a square root: the value p + s * sqrt(q), with p and q   *)
(* rational, q >= 0 and s in {-1, 0, 1}                                     *)

Root(p, s, q) ==
    IF IsNaN(p) \/ IsNaN(q) THEN NaN
    ELSE [k |-> "num", p |-> p, s |-> IF q.n = 0 THEN 0 ELSE s, q |-> q]

\* sqrt(v)
Sqrt(v) == Root(Int2F(0), 1, v)

\* a + c * r, for rationals a and c
Affine(a, c, r) ==
    IF IsNaN(r) \/ IsNaN(a) THEN NaN
    ELSE Root(Add(a, Mul(c, r.p)), r.s * Sgn(c.n), Mul(Mul(c, c), r.q))

RootIsZero(r) == ~IsNaN(r) /\ r.p.n = 0 /\ r.s = 0

\* x <= r and x >= r, for a rational x; FALSE when either is NaN
RootGe(r, x) ==
    /\ ~IsNaN(r) /\ ~IsNaN(x)
    /\ LET t == Sub(x, r.p)
           t2 == Mul(t, t)
       IN  IF r.s >= 0 THEN t.n <= 0 \/ Le(t2, r.q)
           ELSE t.n < 0 /\ Ge(t2, r.q)

RootLe(r, x) ==
    /\ ~IsNaN(r) /\ ~IsNaN(x)
    /\ LET t == Sub(x, r.p)
           t2 == Mul(t, t)
       IN  IF r.s > 0 THEN t.n >= 0 /\ Ge(t2, r.q)
           ELSE t.n >= 0 \/ Le(t2, r.q)

\* col.rolling(window=w).std(): the sample standard deviation (ddof = 1),
\* NaN until w observations are in the window and for w = 1
RollingStd(col, w) ==
    [i \in 1..Len(col) |->
        IF i < w \/ w < 2 THEN NaN
        ELSE LET sum == SumCells(col, i - w + 1, i)
                 sq == SumCells([j \in 1..Len(col) |-> Mul(col[j], col[j])], i - w + 1, i)
             IN  Sqrt(Div(Sub(sq, Div(Mul(sum, sum), Int2F(w))), Int2F(w - 1)))]

----------------------------------------------------------------------------
(* bollinger_bands_strategy *)

\* data.dropna(subset=['Close', 'Lower', 'Upper'])
Dropna(data) ==
    Rows(data, {i \in 1..Len0(data) :
                    /\ ~IsNaN(data.cols["Close"][i])
                    /\ ~IsNaN(data.cols["Lower"][i])
                    /\ ~IsNaN(data.cols["Upper"][i])})

\* a bug: the test for an empty frame is missing
NoRowLeft_skipped(data) == FALSE

\* data.empty
NoRowLeft(data) == Len0(data) = 0

\* a bug: the two rules are applied in the other order, the buy rule last
BollingerSignal_buylast(data) ==
    [i \in 1..Len0(data) |->
        IF RootGe(data.cols["Lower"][i], data.cols["Close"][i]) THEN Int2F(1)
        ELSE IF RootLe(data.cols["Upper"][i], data.cols["Close"][i]) THEN Int2F(-1)
        ELSE Int2F(0)]

\* signal = 0; Close <= Lower gives 1; then Close >= Upper gives -1
BollingerSignal(data) ==
    [i \in 1..Len0(data) |->
        IF RootLe(data.cols["Upper"][i], data.cols["Close"][i]) THEN Int2F(-1)
        ELSE IF RootGe(data.cols["Lower"][i], data.cols["Close"][i]) THEN Int2F(1)
        ELSE Int2F(0)]

\* data['MA'] and data['STD']
WithMoments(b, window) ==
    Assign(Assign(b, "MA", RollingMean(b.obj.cols["Close"], window)),
           "STD", RollingStd(b.obj.cols["Close"], window))

\* data['MA'] + c * data['STD']
Band(data, c) ==
    [i \in 1..Len0(data) |-> Affine(data.cols["MA"][i], c, data.cols["STD"][i])]

\* data['Upper'] and data['Lower']
WithBands(b, num_std) ==
    Assign(Assign(b, "Upper", Band(b.obj, num_std)), "Lower", Band(b.obj, Neg(num_std)))

\* data = data.dropna(subset=required_cols): a new object
Dropped(b) == Rebind(b, Dropna(b.obj))

\* from `if data.empty` on
BollingerTrades(b) ==
    IF NoRowLeft(b.obj) THEN Return(b, NoResult)
    ELSE StrictTrades(WithPositions(Assign(b, "signal", BollingerSignal(b.obj))))

bollinger_bands_strategy(df, window, num_std) ==
    IF Len0(df) < window THEN Return(DataCopy(Param(df)), NoResult)
    ELSE BollingerTrades(
             Dropped(WithBands(WithMoments(DataCopy(Param(df)), window), num_std)))

----------------------------------------------------------------------------
(* calculate_performance_metrics *)

\* data['Close'].pct_change().dropna()
DailyReturns(close) ==
    [i \in 1..(IF Len(close) = 0 THEN 0 ELSE Len(close) - 1) |->
        Div(Sub(close[i + 1], close[i]), close[i])]

\* Series.mean(): NaN for an empty series
Mean(col) == Div(SumCells(col, 1, Len(col)), Int2F(Len(col)))

\* a bug: one degree of freedom too many
Std_ddof2(col) == IF Len(col) < 3 THEN NaN ELSE RollingStd(col, Len(col))[Len(col)]

\* Series.std(): the sample standard deviation, NaN for fewer than 2 values
Std(col) == IF Len(col) < 2 THEN NaN ELSE RollingStd(col, Len(col))[Len(col)]

\* mean / std, with numpy's float division
DivByRoot(m, r) ==
    IF IsNaN(m) \/ IsNaN(r) THEN NaN
    ELSE IF RootIsZero(r) THEN (IF m.n = 0 THEN NaN ELSE Inf(Sgn(m.n)))
    ELSE Root(Int2F(0), Sgn(m.n), Div(Mul(m, m), r.q))

\* (1 + daily_returns).cumprod()
RECURSIVE CumProd(_)
CumProd(col) ==
    IF Len(col) = 0 THEN <<>>
    ELSE LET init == CumProd(SubSeq(col, 1, Len(col) - 1))
             last == Add(Int2F(1), col[Len(col)])
         IN  Append(init, IF Len(init) = 0 THEN last ELSE Mul(init[Len(init)], last))

\* a bug: the overall maximum, equity_curve.max(), in every row
RECURSIVE CumMax_overall(_)
CumMax_overall(col) ==
    IF Len(col) = 0 THEN <<>>
    ELSE LET rest == CumMax_overall(SubSeq(col, 2, Len(col)))
             top == IF Len(rest) > 0 /\ Gt(rest[1], col[1]) THEN rest[1] ELSE col[1]
         IN  [i \in 1..Len(col) |-> top]

\* equity_curve.cummax()
RECURSIVE CumMax(_)
CumMax(col) ==
    IF Len(col) = 0 THEN <<>>
    ELSE LET init == CumMax(SubSeq(col, 1, Len(col) - 1))
             last == col[Len(col)]
         IN  Append(init, IF Len(init) > 0 /\ Gt(init[Len(init)], last)
                          THEN init[Len(init)] ELSE last)

\* Series.min(): NaN for an empty series
RECURSIVE Min(_)
Min(col) ==
    IF Len(col) = 0 THEN NaN
    ELSE LET m == Min(SubSeq(col, 1, Len(col) - 1))
             last == col[Len(col)]
         IN  IF IsNaN(m) \/ Lt(last, m) THEN last ELSE m

\* std * np.sqrt(252) * 100
Scaled(std) ==
    IF IsNaN(std) THEN NaN
    ELSE Affine(Int2F(0), Int2F(100), Root(Int2F(0), 1, Mul(std.q, Int2F(252))))

\* daily_returns.std() * np.sqrt(252) * 100
Volatility(daily_returns) == Scaled(Std(daily_returns))

\* (equity_curve - roll_max) / roll_max
Drawdown(equity_curve, roll_max) ==
    [i \in 1..Len(equity_curve) |->
        Div(Sub(equity_curve[i], roll_max[i]), roll_max[i])]

\* drawdown.min() * 100
MaxDrawdown(equity_curve) ==
    Mul(Min(Drawdown(equity_curve, CumMax(equity_curve))), Int2F(100))

\* (daily_returns.mean() / daily_returns.std()) * np.sqrt(252)
Annualized(ratio) ==
    IF IsNum(ratio) THEN Root(Int2F(0), ratio.s, Mul(ratio.q, Int2F(252))) ELSE ratio

SharpeRatio(daily_returns) == Annualized(DivByRoot(Mean(daily_returns), Std(daily_returns)))

MetricsOf(daily_returns) ==
    [volatility |-> Volatility(daily_returns),
     sharpe_ratio |-> SharpeRatio(daily_returns),
     max_drawdown |-> MaxDrawdown(CumProd(daily_returns))]

calculate_performance_metrics(df) ==
    [raised |-> FALSE, caller |-> df, local |-> df,
     res |-> MetricsOf(DailyReturns(df.cols["Close"]))]

----------------------------------------------------------------------------
(* Operations *)

Windows == 1..MaxWindow

Idle == op.name = "none"

Call(name, a, bb, k, r) ==
    /\ Idle
    /\ op' = [name |-> name, a |-> a, b |-> bb, k |-> k]
    /\ series' = r.caller
    /\ work' = r.local
    /\ raised' = r.raised
    /\ result' = r.res
    /\ UNCHANGED <<metrics, run>>

BuyAndHold == Call("buy_and_hold", 0, 0, Int2F(0), buy_and_hold(series))

MovingAverageCrossover ==
    \E short_window \in Windows, long_window \in Windows :
        Call("moving_average_crossover", short_window, long_window, Int2F(0),
             moving_average_crossover(series, short_window, long_window))

RsiStrategy ==
    \E rsi_period \in Windows :
        Call("rsi_strategy", rsi_period, 0, Int2F(0), rsi_strategy(series, rsi_period))

\* num_std: the default 2 and a narrow band of half a standard deviation
NumStds == {Q(1, 2), Q(2, 1)}

BollingerBandsStrategy ==
    \E window \in Windows, num_std \in NumStds :
        Call("bollinger_bands_strategy", window, 0, num_std,
             bollinger_bands_strategy(series, window, num_std))

CalculatePerformanceMetrics ==
    LET r == calculate_performance_metrics(series)
    IN  /\ Idle
        /\ op' = [name |-> "calculate_performance_metrics", a |-> 0, b |-> 0, k |-> Int2F(0)]
        /\ series' = r.caller
        /\ work' = r.local
        /\ raised' = r.raised
        /\ metrics' = r.res
        /\ UNCHANGED <<result, run>>

\* the caller is done with the returned tuple; the callee's locals are gone
Discard ==
    /\ ~Idle
    /\ op' = [name |-> "none", a |-> 0, b |-> 0, k |-> Int2F(0)]
    /\ work' = EmptyFrame
    /\ result' = NoResult
    /\ metrics' = NoMetrics
    /\ raised' = FALSE
    /\ UNCHANGED <<series, run>>

----------------------------------------------------------------------------
(* Inputs *)

RECURSIVE SeqsUpTo(_, _)
SeqsUpTo(S, n) ==
    IF n = 0 THEN {<<>>}
    ELSE LET shorter == SeqsUpTo(S, n - 1)
         IN  shorter \cup {Append(s, x) : s \in {t \in shorter : Len(t) = n - 1}, x \in S}

PriceFrame(closes) ==
    [index |-> [i \in 1..Len(closes) |-> FirstDay + i - 1],
     cols |-> [c \in {"Close"} |-> [i \in 1..Len(closes) |-> Int2F(closes[i])]]]

Init ==
    /\ series \in {PriceFrame(c) : c \in SeqsUpTo(1..MaxPrice, MaxLen)}
    /\ work = EmptyFrame
    /\ op = [name |-> "none", a |-> 0, b |-> 0, k |-> Int2F(0)]
    /\ result = NoResult
    /\ metrics = NoMetrics
    /\ raised = FALSE
    /\ pc = "direct"
    /\ fetched = series
    /\ calls = <<>>

Next ==
    \/ BuyAndHold
    \/ MovingAverageCrossover
    \/ RsiStrategy
    \/ BollingerBandsStrategy
    \/ CalculatePerformanceMetrics
    \/ Discard

Spec == Init /\ [][Next]_vars

----------------------------------------------------------------------------
(* A run of the app (src/app.py, the block under `if run:`; main() of       *)
(* src/backtest_app.py is the same sequence, with the test for an empty     *)
(* frame inside its fetch_data): fetch, test for no data, the selected      *)
(* strategy, then the metrics.                                              *)

\* a bug: the test for an empty frame is missing
IsEmpty_never(data) == FALSE

\* data.empty
IsEmpty(data) == Len0(data) = 0

\* a bug: the app rebinds `data` to the frame the strategy worked on
DataAfter_rebound(r) == r.local

\* the frame the app's name `data` is bound to after a strategy call: the call
\* returns (returns, trades, trade_log) only and `data` is not assigned again
DataAfter(r) == r.caller

\* data = fetch_data(ticker, start_date, end_date)
FetchData ==
    /\ pc = "fetch"
    /\ \E data \in {PriceFrame(c) : c \in SeqsUpTo(1..MaxPrice, MaxLen)} :
           /\ series' = data
           /\ fetched' = data
    /\ pc' = "fetched"
    /\ UNCHANGED <<work, op, result, metrics, raised, calls>>

\* st.error("No data found ...") in app.py; sys.exit(1) in backtest_app.py
NoDataFound ==
    /\ pc = "fetched"
    /\ IsEmpty(series)
    /\ pc' = "no_data"
    /\ UNCHANGED <<series, work, op, result, metrics, raised, fetched, calls>>

\* the branch of the selected strategy
Run(name, a, bb, k, r) ==
    /\ pc = "fetched"
    /\ ~IsEmpty(series)
    /\ op' = [name |-> name, a |-> a, b |-> bb, k |-> k]
    /\ series' = DataAfter(r)
    /\ work' = r.local
    /\ raised' = r.raised
    /\ result' = r.res
    /\ calls' = Append(calls, name)
    /\ pc' = "strategy_done"
    /\ UNCHANGED <<metrics, fetched>>

RunBuyAndHold == Run("buy_and_hold", 0, 0, Int2F(0), buy_and_hold(series))

RunMovingAverageCrossover ==
    \E short_window \in Windows, long_window \in Windows :
        Run("moving_average_crossover", short_window, long_window, Int2F(0),
            moving_average_crossover(series, short_window, long_window))

RunRsiStrategy ==
    \E rsi_period \in Windows :
        Run("rsi_strategy", rsi_period, 0, Int2F(0), rsi_strategy(series, rsi_period))

RunBollingerBandsStrategy ==
    \E window \in Windows, num_std \in NumStds :
        Run("bollinger_bands_strategy", window, 0, num_std,
            bollinger_bands_strategy(series, window, num_std))

\* volatility, sharpe_ratio, max_drawdown = calculate_performance_metrics(data)
RunMetrics ==
    /\ pc = "strategy_done"
    /\ ~raised
    /\ metrics' = calculate_performance_metrics(series).res
    /\ calls' = Append(calls, "calculate_performance_metrics")
    /\ pc' = "done"
    /\ UNCHANGED <<series, work, op, result, raised, fetched>>

AppInit ==
    /\ pc = "fetch"
    /\ series = EmptyFrame
    /\ fetched = EmptyFrame
    /\ work = EmptyFrame
    /\ op = [name |-> "none", a |-> 0, b |-> 0, k |-> Int2F(0)]
    /\ result = NoResult
    /\ metrics = NoMetrics
    /\ raised = FALSE
    /\ calls = <<>>

AppNext ==
    \/ FetchData
    \/ NoDataFound
    \/ RunBuyAndHold
    \/ RunMovingAverageCrossover
    \/ RunRsiStrategy
    \/ RunBollingerBandsStrategy
    \/ RunMetrics

App == AppInit /\ [][AppNext]_vars

----------------------------------------------------------------------------
(* Vocabulary of the properties *)

Strategies == {"moving_average_crossover", "rsi_strategy", "bollinger_bands_strategy"}

\* the closes of the caller's series, as integers
Closes == [i \in 1..Len0(series) |-> series.cols["Close"][i].n]

RECURSIVE SumInt(_, _, _)
SumInt(c, lo, hi) == IF lo > hi THEN 0 ELSE c[lo] + SumInt(c, lo + 1, hi)

\* the cell x equals the fraction num / den (den # 0)
IsFraction(x, num, den) == IsNum(x) /\ x.n * den = num * x.d

LogOf(action) == SelectSeq(result.trade_log, LAMBDA e : e.action = action)

\* the signal of the last call's frame, as integers, and its day-to-day differences
HasSignal == "signal" \in Columns(work)

SignalAt(i) == work.cols["signal"][i].n

Step(i) == SignalAt(i) - SignalAt(i - 1)

\* the difference that fires an event in the last call: 1 for the crossover, 2 otherwise
Threshold == IF op.name = "moving_average_crossover" THEN 1 ELSE 2

\* the rows of the last call's frame where a BUY (sign = 1) or SELL (sign = -1) fired
Fired(sign) ==
    IF HasSignal THEN {i \in 2..Len0(work) : Step(i) = sign * Threshold} ELSE {}

RowOfDate(date) == CHOOSE i \in 1..Len0(work) : Strftime(work.index[i]) = date

----------------------------------------------------------------------------
(* C1: buy_and_hold on a series of length >= 1 returns                      *)
(* (close[last] - close[first]) / close[first] * 100 and a trade log of     *)
(* exactly two entries, BUY at (date[first], close[first]) then SELL at     *)
(* (date[last], close[last]); for a length-1 series both entries carry the  *)
(* same date and the return is 0.                                           *)

C1_BuyAndHoldContract ==
    (op.name = "buy_and_hold" /\ Len0(series) >= 1) =>
        LET n == Len0(series)
            log == result.trade_log
        IN  /\ ~raised
            /\ IsFraction(result.returns, (Closes[n] - Closes[1]) * 100, Closes[1])
            /\ Len(log) = 2
            /\ log[1] = [action |-> "BUY", date |-> Strftime(series.index[1]),
                         price |-> Int2F(Closes[1])]
            /\ log[2] = [action |-> "SELL", date |-> Strftime(series.index[n]),
                         price |-> Int2F(Closes[n])]
            /\ (n = 1 => log[1].date = log[2].date /\ result.returns = Int2F(0))

C1_Witness ==
    /\ op.name = "buy_and_hold"
    /\ Len0(series) = 1
    /\ Len(result.trade_log) = 2
    /\ result.trade_log[1].date = result.trade_log[2].date

----------------------------------------------------------------------------
(* C2: moving_average_crossover.  B(i) is the boolean short_ma > long_ma at *)
(* row i (FALSE while either mean is NaN), computed from the closes.        *)

B(i) ==
    /\ i >= op.a /\ i >= op.b
    /\ SumInt(Closes, i - op.a + 1, i) * op.b > SumInt(Closes, i - op.b + 1, i) * op.a

\* the sign changes of B over the positions short_window..len-1 of the code
SignChanges == Cardinality({i \in (op.a + 2)..Len0(series) : B(i) # B(i - 1)})

\* C2 as stated: the number of BUY plus SELL entries equals the count of sign
\* changes of (short_ma > long_ma) over the indices from short_window onward
C2_AsStated ==
    op.name = "moving_average_crossover" =>
        Len(LogOf("BUY")) + Len(LogOf("SELL")) = SignChanges

\* C2 amended: the number of BUY plus SELL entries equals that count plus one
\* when short_ma > long_ma already holds at index short_window, the first
\* index evaluated (the signal is forced to 0 before it, so a BUY fires there)
C2_CrossoverEventCount ==
    op.name = "moving_average_crossover" =>
        /\ Len(result.trade_log) = Len(LogOf("BUY")) + Len(LogOf("SELL"))
        /\ Len(result.trade_log) =
               SignChanges + (IF op.a + 1 <= Len0(series) /\ B(op.a + 1) THEN 1 ELSE 0)

C2_Witness ==
    /\ op.name = "moving_average_crossover"
    /\ op.a + 1 <= Len0(series)
    /\ B(op.a + 1)
    /\ SignChanges >= 2
    /\ Len(result.trade_log) = SignChanges + 1

----------------------------------------------------------------------------
(* C3: rsi_strategy and bollinger_bands_strategy log a BUY on a day only if *)
(* signal[day] - signal[day-1] = 2 and a SELL only if it is -2; so a signal *)
(* path whose consecutive differences all have magnitude <= 1 gives an      *)
(* empty trade log.                                                         *)

----------------------------------------------------------------------------
(* C4: in the three signal strategies, whenever a BUY and a SELL event      *)
(* exist, returns = (close at the last SELL - close at the first BUY) /     *)
(* close at the first BUY * 100, whatever lies between them.                *)

C4_FirstBuyLastSell ==
    (op.name \in Strategies /\ LogOf("BUY") # <<>> /\ LogOf("SELL") # <<>>) =>
        LET buy == LogOf("BUY")[1].price.n
            sell == LogOf("SELL")[Len(LogOf("SELL"))].price.n
        IN  IsFraction(result.returns, (sell - buy) * 100, buy)

\* two sells at different prices around a buy, and a non-zero return
C4_Witness ==
    /\ op.name \in Strategies
    /\ LogOf("BUY") # <<>>
    /\ Len(LogOf("SELL")) >= 2
    /\ LogOf("SELL")[1].price # LogOf("SELL")[Len(LogOf("SELL"))].price
    /\ result.returns # Int2F(0)

----------------------------------------------------------------------------
(* C5: in the three signal strategies, a run with no BUY event or no SELL   *)
(* event returns 0 and an empty trade_prices while the trade log holds      *)
(* every event that fired; otherwise trade_prices is exactly                *)
(* [first buy price, last sell price].                                      *)

C5_OneSidedRun ==
    op.name \in Strategies =>
        /\ \A sign \in {1, -1} :
               LET action == IF sign = 1 THEN "BUY" ELSE "SELL"
               IN  /\ Len(LogOf(action)) = Cardinality(Fired(sign))
                   /\ \A i \in Fired(sign) :
                          \E k \in 1..Len(result.trade_log) :
                              result.trade_log[k] =
                                  [action |-> action, date |-> Strftime(work.index[i]),
                                   price |-> work.cols["Close"][i]]
        /\ Len(result.trade_log) = Cardinality(Fired(1)) + Cardinality(Fired(-1))
        /\ IF Fired(1) = {} \/ Fired(-1) = {}
           THEN result.returns = Int2F(0) /\ result.trades = <<>>
           ELSE result.trades =
                    <<LogOf("BUY")[1].price, LogOf("SELL")[Len(LogOf("SELL"))].price>>

\* only one side fired: a non-empty log with a neutral result
C5_Witness ==
    /\ op.name \in Strategies
    /\ Fired(1) # {}
    /\ Fired(-1) = {}
    /\ result.trade_log # <<>>
    /\ result.trades = <<>>
    /\ result.returns = Int2F(0)

----------------------------------------------------------------------------
(* C6: moving_average_crossover with short_window >= len(series) does not   *)
(* raise and returns 0% with an empty trade log and empty trade_prices.     *)

C6_ShortWindowTooLong ==
    (op.name = "moving_average_crossover" /\ op.a >= Len0(series)) =>
        /\ ~raised
        /\ result.returns = Int2F(0)
        /\ result.trades = <<>>
        /\ result.trade_log = <<>>

\* short_window = len(series): short_ma exceeds long_ma in the last row, unread
C6_Witness ==
    /\ op.name = "moving_average_crossover"
    /\ op.a = Len0(series)
    /\ B(Len0(series))
    /\ result.trade_log = <<>>

----------------------------------------------------------------------------
(* C7: bollinger_bands_strategy returns exactly (0, [], []) without raising *)
(* and before any signal is computed if the series has fewer rows than      *)
(* window or no row remains after dropping the rows with an undefined       *)
(* Close, Lower or Upper.                                                   *)

NoRowRemains == "Upper" \in Columns(work) /\ Len0(work) = 0

C7_BollingerGuards ==
    (op.name = "bollinger_bands_strategy" /\ (Len0(series) < op.a \/ NoRowRemains)) =>
        /\ ~raised
        /\ result = [returns |-> Int2F(0), trades |-> <<>>, trade_log |-> <<>>]
        /\ ~HasSignal

\* enough rows for the window, yet every row is dropped (window = 1: no deviation)
C7_Witness ==
    /\ op.name = "bollinger_bands_strategy"
    /\ Len0(series) >= op.a
    /\ Len0(series) >= 2
    /\ NoRowRemains
    /\ ~HasSignal

----------------------------------------------------------------------------
(* C8: calculate_performance_metrics on a series with at least one daily    *)
(* return gives max_drawdown <= 0, and max_drawdown = 0 whenever the equity *)
(* curve is monotonically non-decreasing.                                   *)

EquityCurve == CumProd(DailyReturns(series.cols["Close"]))

EquityNonDecreasing ==
    \A i \in 2..Len(EquityCurve) : Le(EquityCurve[i - 1], EquityCurve[i])

C8_MaxDrawdownSign ==
    (op.name = "calculate_performance_metrics" /\ Len0(series) >= 2) =>
        /\ IsNum(metrics.max_drawdown)
        /\ metrics.max_drawdown.n <= 0
        /\ EquityNonDecreasing => metrics.max_drawdown.n = 0

\* a curve that rises and never falls
C8_Witness ==
    /\ op.name = "calculate_performance_metrics"
    /\ Len0(series) >= 3
    /\ EquityNonDecreasing
    /\ Lt(EquityCurve[1], EquityCurve[Len(EquityCurve)])
    /\ metrics.max_drawdown = Int2F(0)

----------------------------------------------------------------------------
(* C9: calculate_performance_metrics on a constant-price series.            *)

ConstantPrice == \A i \in 1..Len0(series) : Closes[i] = Closes[1]

\* C9 as stated: for a constant-price series (every daily return 0) the call
\* does not raise, volatility = 0 and sharpe_ratio is the sentinel NaN
C9_AsStated ==
    (op.name = "calculate_performance_metrics" /\ ConstantPrice /\ Len0(series) >= 2) =>
        /\ ~raised
        /\ RootIsZero(metrics.volatility)
        /\ IsNaN(metrics.sharpe_ratio)

\* C9 amended: for a constant-price series the call does not raise and
\* sharpe_ratio is the sentinel NaN; volatility = 0 when the series has at
\* least three rows (two daily returns), and is NaN as well when it has fewer
C9_ConstantPriceMetrics ==
    (op.name = "calculate_performance_metrics" /\ ConstantPrice) =>
        /\ ~raised
        /\ IsNaN(metrics.sharpe_ratio)
        /\ IF Len0(series) >= 3
           THEN RootIsZero(metrics.volatility)
           ELSE IsNaN(metrics.volatility)

C9_Witness ==
    /\ op.name = "calculate_performance_metrics"
    /\ ConstantPrice
    /\ Len0(series) = 3
    /\ RootIsZero(metrics.volatility)
    /\ IsNaN(metrics.sharpe_ratio)

----------------------------------------------------------------------------
(* C10: no core operation changes the caller's price series: after any      *)
(* sequence of calls it has the same rows, values and columns; derived      *)
(* columns exist only on a private copy.                                    *)

C10_SeriesNeverMutated == [][series' = series]_vars

\* derived columns on the private frame, none on the caller's
C10_Witness ==
    /\ op.name = "bollinger_bands_strategy"
    /\ {"MA", "STD", "Upper", "Lower", "signal", "positions"} \subseteq Columns(work)
    /\ Columns(series) = {"Close"}

----------------------------------------------------------------------------
(* C12: for every strategy the returned trade log is sorted in              *)
(* non-decreasing date order, entries of equal date keep insertion order    *)
(* (BUY before SELL), and the log is a permutation of the BUY and SELL      *)
(* events that fired.                                                       *)

\* a date string as a number that orders like the calendar
DateKey(date) == date[1] * 10000 + date[2] * 100 + date[3]

\* the events of the last call, from the rows of its frame
FiredEvents ==
    IF op.name = "buy_and_hold"
    THEN {[action |-> "BUY", date |-> Strftime(series.index[1]),
           price |-> series.cols["Close"][1]],
          [action |-> "SELL", date |-> Strftime(series.index[Len0(series)]),
           price |-> series.cols["Close"][Len0(series)]]}
    ELSE {[action |-> "BUY", date |-> Strftime(work.index[i]),
           price |-> work.cols["Close"][i]] : i \in Fired(1)}
         \cup
         {[action |-> "SELL", date |-> Strftime(work.index[i]),
           price |-> work.cols["Close"][i]] : i \in Fired(-1)}

C12_LogSortedStablePermutation ==
    (op.name \in Strategies \cup {"buy_and_hold"} /\ ~raised) =>
        LET log == result.trade_log
        IN  /\ \A k \in 1..(Len(log) - 1) :
                   /\ DateKey(log[k].date) <= DateKey(log[k + 1].date)
                   /\ log[k].date = log[k + 1].date =>
                          (log[k].action = "BUY" /\ log[k + 1].action = "SELL")
            /\ {log[k] : k \in 1..Len(log)} = FiredEvents
            /\ Len(log) = Cardinality(FiredEvents)

\* a SELL ahead of a later BUY, in a log that runs from one month into the next
C12_Witness ==
    /\ op.name \in Strategies
    /\ Len(result.trade_log) >= 3
    /\ result.trade_log[1].date[2] < result.trade_log[Len(result.trade_log)].date[2]
    /\ \E k \in 1..(Len(result.trade_log) - 1) :
           /\ result.trade_log[k].action = "SELL"
           /\ result.trade_log[k + 1].action = "BUY"

----------------------------------------------------------------------------
(* C13: rsi_strategy.  GainSum(i) and LossSum(i) are rsi_period times the   *)
(* rolling mean gain and loss at row i, from the closes (the first row has  *)
(* no delta and counts 0).                                                  *)

Delta(i) == IF i = 1 THEN 0 ELSE Closes[i] - Closes[i - 1]

GainSum(i) ==
    SumInt([j \in 1..Len0(series) |-> IF Delta(j) > 0 THEN Delta(j) ELSE 0],
           i - op.a + 1, i)

LossSum(i) ==
    SumInt([j \in 1..Len0(series) |-> IF Delta(j) < 0 THEN -Delta(j) ELSE 0],
           i - op.a + 1, i)

RsiAt(i) == work.cols["RSI"][i]

\* C13 as stated: on any day where the rolling mean loss is 0, RSI is NaN and
\* the signal is 0, whatever the rolling mean gain; and the signal is 1 iff
\* RSI < 30, -1 iff RSI > 70 and 0 otherwise
C13_AsStated ==
    op.name = "rsi_strategy" =>
        \A i \in 1..Len0(work) :
            /\ (i >= op.a /\ LossSum(i) = 0) => (IsNaN(RsiAt(i)) /\ SignalAt(i) = 0)
            /\ SignalAt(i) = 1 <=> Lt(RsiAt(i), Int2F(30))
            /\ SignalAt(i) = -1 <=> Gt(RsiAt(i), Int2F(70))
            /\ SignalAt(i) \in {1, 0, -1}

\* C13 amended: where the rolling mean loss is 0, RSI is NaN and the signal 0
\* only if the rolling mean gain is 0 too; with a gain > 0 the ratio is +inf,
\* RSI is 100 and the signal is -1.  The signal is 1 iff RSI < 30, -1 iff
\* RSI > 70 and 0 otherwise, including every day before enough history exists
C13_RsiSignalRule ==
    op.name = "rsi_strategy" =>
        \A i \in 1..Len0(work) :
            /\ i < op.a => (IsNaN(RsiAt(i)) /\ SignalAt(i) = 0)
            /\ (i >= op.a /\ LossSum(i) = 0 /\ GainSum(i) = 0) =>
                   (IsNaN(RsiAt(i)) /\ SignalAt(i) = 0)
            /\ (i >= op.a /\ LossSum(i) = 0 /\ GainSum(i) > 0) =>
                   (RsiAt(i) = Int2F(100) /\ SignalAt(i) = -1)
            /\ (i >= op.a /\ LossSum(i) > 0) =>
                   /\ IsFraction(RsiAt(i), 100 * GainSum(i), GainSum(i) + LossSum(i))
                   /\ SignalAt(i) = 1 <=> 100 * GainSum(i) < 30 * (GainSum(i) + LossSum(i))
                   /\ SignalAt(i) = -1 <=> 100 * GainSum(i) > 70 * (GainSum(i) + LossSum(i))
            /\ SignalAt(i) \in {1, 0, -1}

\* a day with gains only next to a day with neither gain nor loss
C13_Witness ==
    /\ op.name = "rsi_strategy"
    /\ \E i \in op.a..Len0(work) :
           LossSum(i) = 0 /\ GainSum(i) > 0 /\ SignalAt(i) = -1
    /\ \E i \in op.a..Len0(work) :
           LossSum(i) = 0 /\ GainSum(i) = 0 /\ SignalAt(i) = 0

----------------------------------------------------------------------------
(* C14: moving_average_crossover: the sorted trade log alternates BUY,      *)
(* SELL, BUY, ... starting with BUY, so #BUY - #SELL is 0 or 1; no event is *)
(* dated at an index below short_window; and whenever returns are computed  *)
(* the first BUY date is strictly earlier than the last SELL date.          *)

C14_CrossoverAlternation ==
    op.name = "moving_average_crossover" =>
        LET log == result.trade_log
        IN  /\ \A k \in 1..Len(log) :
                   /\ log[k].action = (IF k % 2 = 1 THEN "BUY" ELSE "SELL")
                   /\ RowOfDate(log[k].date) > op.a
            /\ Len(LogOf("BUY")) - Len(LogOf("SELL")) \in {0, 1}
            /\ result.trades # <<>> =>
                   DateKey(LogOf("BUY")[1].date) <
                       DateKey(LogOf("SELL")[Len(LogOf("SELL"))].date)

\* two round trips, the first BUY on the first row evaluated
C14_Witness ==
    /\ op.name = "moving_average_crossover"
    /\ Len(result.trade_log) >= 4
    /\ RowOfDate(result.trade_log[1].date) = op.a + 1
    /\ result.trades # <<>>

----------------------------------------------------------------------------
(* C15: bollinger_bands_strategy applies the sell rule after the buy rule:  *)
(* on a retained day with close <= Lower and close >= Upper (rolling        *)
(* standard deviation 0) the signal is -1, never 1; so a constant-price     *)
(* series has signal -1 on every retained day and an empty trade log.       *)

\* the row of the caller's series that row j of the last call's frame came from
SeriesRow(j) == CHOOSE i \in 1..Len0(series) : series.index[i] = work.index[j]

\* the window that ends at row i of the series holds one price only
FlatWindow(i) == \A j \in (i - op.a + 1)..i : Closes[j] = Closes[i]

C15_SellRuleWins ==
    (op.name = "bollinger_bands_strategy" /\ HasSignal) =>
        /\ \A j \in 1..Len0(work) : FlatWindow(SeriesRow(j)) => SignalAt(j) = -1
        /\ ConstantPrice =>
               /\ \A j \in 1..Len0(work) : SignalAt(j) = -1
               /\ result.trade_log = <<>>

\* a constant-price series with several retained days
C15_Witness ==
    /\ op.name = "bollinger_bands_strategy"
    /\ HasSignal
    /\ ConstantPrice
    /\ Len0(work) >= 2
    /\ \A j \in 1..Len0(work) : SignalAt(j) = -1
    /\ result.trade_log = <<>>

----------------------------------------------------------------------------
(* C11: a run of the app whose fetch yields an empty price series ends in   *)
(* the failure outcome "no_data", distinct from a completed run; no         *)
(* strategy function and no calculate_performance_metrics is invoked on it, *)
(* and no result or metrics are produced from it.                           *)

C11_EmptyFetchFails ==
    /\ (pc # "fetch" /\ Len0(fetched) = 0) =>
           /\ pc \in {"fetched", "no_data"}
           /\ pc = "fetched" =>
                  /\ ENABLED NoDataFound
                  /\ ~ENABLED (\/ RunBuyAndHold
                               \/ RunMovingAverageCrossover
                               \/ RunRsiStrategy
                               \/ RunBollingerBandsStrategy
                               \/ RunMetrics)
           /\ calls = <<>>
           /\ op.name = "none"
           /\ result = NoResult /\ metrics = NoMetrics /\ ~raised
    /\ pc = "no_data" => Len0(fetched) = 0
    /\ pc \in {"strategy_done", "done"} => (Len0(fetched) > 0 /\ calls # <<>>)

C11_Witness ==
    /\ pc = "no_data"
    /\ Len0(fetched) = 0
    /\ calls = <<>>

----------------------------------------------------------------------------
(* C16: in every run of the app the selected strategy is invoked before     *)
(* calculate_performance_metrics, and the metrics are those of the series   *)
(* as it was fetched: the reported (volatility, sharpe_ratio, max_drawdown) *)
(* equal calculate_performance_metrics of the fetched series, whichever     *)
(* strategy and parameters ran.                                             *)

C16_MetricsOfFetchedSeries ==
    /\ pc = "done" =>
           /\ Len(calls) = 2
           /\ calls[1] = op.name
           /\ calls[1] \in Strategies \cup {"buy_and_hold"}
           /\ calls[2] = "calculate_performance_metrics"
           /\ metrics = calculate_performance_metrics(fetched).res
    /\ pc = "strategy_done" => (~raised /\ series = fetched)
    /\ pc # "done" =>
           /\ metrics = NoMetrics
           /\ \A k \in 1..Len(calls) : calls[k] # "calculate_performance_metrics"

\* a completed run whose strategy dropped rows and traded, with a defined volatility
C16_Witness ==
    /\ pc = "done"
    /\ op.name = "bollinger_bands_strategy"
    /\ 0 < Len0(work) /\ Len0(work) < Len0(fetched)
    /\ result.trade_log # <<>>
    /\ IsNum(metrics.max_drawdown)
    /\ metrics.max_drawdown # Int2F(0)

====
